---- MODULE Spec2Model ----
(***************************************************************************)
(* Model of package process (src/process.go): the supervisor of one child  *)
(* process, a state machine (starting, running, stopping, killing,         *)
(* backoff, restarting, failed, stopped) driven by state.Run.              *)
(*                                                                         *)
(* Time is abstracted: a timer started by a select may fire at any moment  *)
(* after the select is reached.  The OS process handle is the environment: *)
(* a spawn may fail, a live child may exit at any moment with any          *)
(* outcome, and a signal sent to a live child may fail.                    *)
(***************************************************************************)
EXTENDS Integers, Sequences, FiniteSets

\* ---------------------------------------------------------------- bounds
MaxSpawns == 3          \* successful spawns explored in one run
MaxBudget == 2          \* MaxStartAttempts and MaxRestarts range over 0..MaxBudget
MaxStopCalls == 2       \* invocations of the Stop handle explored in one run
MaxReads == 2           \* receives of the caller on the channel Run returned
CustomTimeout == 7      \* a non-zero timeout value set by the caller

\* ------------------------------------------------------ program constants
restartTimeout == 100
startTimeout == 1000
backoffTimeout == 5000
stopTimeout == 20000
killTimeout == 5000

\* --------------------------------------------------------------- domains
Policies == {"", "never", "on-failure", "always"}

StateNames ==
  {"starting", "running", "stopping", "killing",
   "backoff", "restarting", "failed", "stopped"}

\* error values; "nil" is Go's nil error
ExitErrors == {"exitErr", "signalErr"}

\* fmt.Errorf("maximum start attempts reached (last error: %v)", err): a new
\* error whose text holds the text of err (<nil> for nil)
Wrap(err) ==
  CASE err = "nil" -> "maxStartErr(nil)"
    [] err = "exitErr" -> "maxStartErr(exitErr)"
    [] err = "signalErr" -> "maxStartErr(signalErr)"
    [] OTHER -> "maxStartErr(other)"

MaxStartErrors == {Wrap(e) : e \in {"nil", "spawnErr"} \cup ExitErrors}

Errors ==
  {"nil", "spawnErr", "sendErr", "killTimeoutErr"}
    \cup ExitErrors \cup MaxStartErrors

\* A buffered Go channel of capacity 1: its buffer and whether it is closed.
EmptyChan == [buf |-> <<>>, closed |-> FALSE]
CanRecv(ch) == Len(ch.buf) > 0 \/ ch.closed
\* a receive yields the buffered value, or the zero value (nil) once closed
RecvVal(ch) == IF Len(ch.buf) > 0 THEN Head(ch.buf) ELSE "nil"
AfterRecv(ch) == IF Len(ch.buf) > 0 THEN [ch EXCEPT !.buf = Tail(@)] ELSE ch

VARIABLES
  \* Process: configuration
  RestartPolicy, MaxStartAttempts, MaxRestarts,
  StartTimeout, BackoffTimeout, StopTimeout, KillTimeout, RestartTimeout,
  \* Process: run-time fields
  StartAttempt, RestartCount, State, LastError,
  \* Process.result and the process behind Process.cmd
  result, child,
  \* the caller's context, the context Run derives from it
  parentDone, ctxDone,
  \* the channel Run returns, and what the caller received from it
  res, got,
  \* state.Run: where the goroutine of Run is, and the current state function
  pc, cur,
  \* history (written, never read by the program)
  spawnCount,   \* successful spawns
  sigLog,       \* signals the supervisor tried to send
  lastExit,     \* outcome of the latest child exit
  flags,        \* what happened so far in the run
  branch,       \* branch the latest select took
  stopCalls,    \* invocations of Stop
  cancelSrc     \* who cancelled the derived context first

config ==
  <<RestartPolicy, MaxStartAttempts, MaxRestarts>>
timeouts ==
  <<StartTimeout, BackoffTimeout, StopTimeout, KillTimeout, RestartTimeout>>
runtime == <<StartAttempt, RestartCount, State, LastError>>
history ==
  <<spawnCount, sigLog, lastExit, flags, branch, stopCalls, cancelSrc>>
vars ==
  <<config, timeouts, runtime, result, child, parentDone, ctxDone, res, got,
    pc, cur, history>>

\* ------------------------------------------------------------------ Init
\* A freshly constructed Process: the caller sets policy and budgets, sets
\* some timeouts and leaves the others zero; the run-time fields hold Go's
\* zero values.  Timers are abstracted, so the durations decide nothing.
Init ==
  /\ RestartPolicy \in Policies
  /\ MaxStartAttempts \in 0..MaxBudget
  /\ MaxRestarts \in 0..MaxBudget
  /\ StartTimeout = 0
  /\ BackoffTimeout = CustomTimeout
  /\ StopTimeout = 0
  /\ KillTimeout = CustomTimeout
  /\ RestartTimeout = 0
  /\ StartAttempt = 0
  /\ RestartCount = 0
  /\ State = ""
  /\ LastError = "nil"
  /\ result = EmptyChan
  /\ child = "none"
  /\ parentDone = FALSE
  /\ ctxDone = FALSE
  /\ res = EmptyChan
  /\ got = <<>>
  /\ pc = "new"
  /\ cur = "starting"
  /\ spawnCount = 0
  /\ sigLog = <<>>
  /\ lastExit = "none"
  /\ flags = {}
  /\ branch = "none"
  /\ stopCalls = 0
  /\ cancelSrc = "none"

\* ------------------------------------------------------------- state.Run
\* The state function returned `next`: state.Run makes it the current one.
Goto(next) ==
  /\ cur' = next
  /\ pc' = "observe"

\* The state function returned nil: state.Run returns.
Halt ==
  /\ pc' = "deliver"
  /\ UNCHANGED cur

\* state.Run reports the current state function's name before calling it;
\* the observer of Run stores it in State.
Observe ==
  /\ pc = "observe"
  /\ State' = cur
  /\ pc' = "call"
  /\ UNCHANGED <<config, timeouts, StartAttempt, RestartCount, LastError,
                 result, child, parentDone, ctxDone, res, got, cur, history>>

\* ------------------------------------------------------------------- Run
Default(v, d) == IF v = 0 THEN d ELSE v

Run ==
  /\ pc = "new"
  /\ res' = EmptyChan
  /\ ctxDone' = parentDone
  /\ cancelSrc' = IF parentDone THEN "ctx" ELSE "none"
  /\ StartTimeout' = Default(StartTimeout, startTimeout)
  /\ StopTimeout' = Default(StopTimeout, stopTimeout)
  /\ BackoffTimeout' = Default(BackoffTimeout, backoffTimeout)
  /\ RestartTimeout' = Default(RestartTimeout, restartTimeout)
  /\ KillTimeout' = Default(KillTimeout, killTimeout)
  /\ cur' = "starting"
  /\ pc' = "observe"
  /\ flags' = flags \cup (IF parentDone THEN {"preCancelled"} ELSE {})
  /\ UNCHANGED <<config, runtime, result, child, parentDone, got,
                 spawnCount, sigLog, lastExit, branch, stopCalls>>

\* RunDeliver with the last process error sent instead of state.Run's result
RunDeliverLastError ==
  /\ pc = "deliver"
  /\ res' = [res EXCEPT !.buf = Append(@, LastError)]
  /\ pc' = "close"
  /\ UNCHANGED <<config, timeouts, runtime, result, child, parentDone,
                 ctxDone, got, cur, history>>

\* The goroutine of Run: res <- state.Run(...).  The observer always returns
\* nil and no state function sets an error, so the value is nil.
RunDeliver ==
  /\ pc = "deliver"
  /\ res' = [res EXCEPT !.buf = Append(@, "nil")]
  /\ pc' = "close"
  /\ UNCHANGED <<config, timeouts, runtime, result, child, parentDone,
                 ctxDone, got, cur, history>>

\* defer close(res)
RunClose ==
  /\ pc = "close"
  /\ res' = [res EXCEPT !.closed = TRUE]
  /\ pc' = "done"
  /\ UNCHANGED <<config, timeouts, runtime, result, child, parentDone,
                 ctxDone, got, cur, history>>

\* ---------------------------------------------------------- environment
\* The caller reads the channel Run returned.
CallerReceive ==
  /\ pc # "new"
  /\ Len(got) < MaxReads
  /\ CanRecv(res)
  /\ got' = Append(got, [val |-> RecvVal(res), open |-> Len(res.buf) > 0])
  /\ res' = AfterRecv(res)
  /\ UNCHANGED <<config, timeouts, runtime, result, child, parentDone,
                 ctxDone, pc, cur, history>>

\* The caller cancels the context it passed (or will pass) to Run; the
\* cancellation propagates to the context Run derived.
CallerCancel ==
  /\ ~parentDone
  /\ parentDone' = TRUE
  /\ ctxDone' = (pc # "new")
  /\ cancelSrc' = IF pc # "new" /\ ~ctxDone THEN "ctx" ELSE cancelSrc
  /\ UNCHANGED <<config, timeouts, runtime, result, child, res, got, pc, cur,
                 spawnCount, sigLog, lastExit, flags, branch, stopCalls>>

\* Stop with the interrupt sent to the child by the handle itself
StopSignals ==
  /\ pc # "new"
  /\ stopCalls < MaxStopCalls
  /\ stopCalls' = stopCalls + 1
  /\ ctxDone' = TRUE
  /\ cancelSrc' = IF ctxDone THEN cancelSrc ELSE "stop"
  /\ sigLog' = IF child = "alive"
               THEN Append(sigLog, [sig |-> "interrupt", target |-> child,
                                    observed |-> FALSE, ok |-> TRUE])
               ELSE sigLog
  /\ UNCHANGED <<config, timeouts, runtime, result, child, parentDone, res,
                 got, pc, cur, spawnCount, lastExit, flags, branch>>

\* The caller invokes p.Stop, the cancel function of the derived context.
Stop ==
  /\ pc # "new"
  /\ stopCalls < MaxStopCalls
  /\ stopCalls' = stopCalls + 1
  /\ ctxDone' = TRUE
  /\ cancelSrc' = IF ctxDone THEN cancelSrc ELSE "stop"
  /\ UNCHANGED <<config, timeouts, runtime, result, child, parentDone, res,
                 got, pc, cur, spawnCount, sigLog, lastExit, flags, branch>>

Signalled == \E i \in 1..Len(sigLog) : sigLog[i].ok

\* what a child's Wait can report
ExitOutcomes ==
  {"nil", "exitErr"} \cup (IF Signalled THEN {"signalErr"} ELSE {})

\* The child exits; the goroutine started by `starting` gets the outcome from
\* cmd.Wait, sends it to p.result and closes p.result.
ChildExit ==
  /\ child = "alive"
  /\ \E o \in ExitOutcomes :
       /\ result' = [buf |-> Append(result.buf, o), closed |-> TRUE]
       /\ lastExit' = o
  /\ child' = "exited"
  /\ UNCHANGED <<config, timeouts, runtime, parentDone, ctxDone, res, got,
                 pc, cur, spawnCount, sigLog, flags, branch, stopCalls,
                 cancelSrc>>

\* ------------------------------------------------------- state functions
\* PolicyRestarts with every non-empty policy treated as "always"
PolicyRestartsNonEmpty(err) ==
  \/ RestartPolicy \notin {"", "on-failure"}
  \/ RestartPolicy = "on-failure" /\ err # "nil"

\* The restart-policy switch of starting and running.
PolicyRestarts(err) ==
  \/ RestartPolicy = "always"
  \/ RestartPolicy = "on-failure" /\ err # "nil"

At(name, where) == pc = where /\ cur = name

\* starting, up to its select: spawn the child and start waiting for it.
\* starting with the cancellation tested before the spawn
startingChecksCancelFirst ==
  /\ At("starting", "call")
  /\ spawnCount < MaxSpawns
  /\ IF ctxDone
     THEN /\ Goto("stopping")
          /\ UNCHANGED <<LastError, child, result, spawnCount, flags>>
     ELSE \E ok \in BOOLEAN :
            IF ok
            THEN /\ LastError' = "nil"
                 /\ child' = "alive"
                 /\ result' = EmptyChan
                 /\ spawnCount' = spawnCount + 1
                 /\ flags' = flags \cup (IF child = "alive" THEN {"orphan"} ELSE {})
                 /\ pc' = "select"
                 /\ UNCHANGED cur
            ELSE /\ LastError' = "spawnErr"
                 /\ child' = "none"
                 /\ flags' = flags \cup {"spawnFailed"}
                 /\ Goto("failed")
                 /\ UNCHANGED <<result, spawnCount>>
  /\ UNCHANGED <<config, timeouts, StartAttempt, RestartCount, State,
                 parentDone, ctxDone, res, got, sigLog, lastExit, branch,
                 stopCalls, cancelSrc>>

starting ==
  /\ At("starting", "call")
  /\ spawnCount < MaxSpawns
  /\ \E ok \in BOOLEAN :
       IF ok
       THEN /\ LastError' = "nil"
            /\ child' = "alive"
            /\ result' = EmptyChan
            /\ spawnCount' = spawnCount + 1
            /\ flags' = flags \cup (IF child = "alive" THEN {"orphan"} ELSE {})
            /\ pc' = "select"
            /\ UNCHANGED cur
       ELSE /\ LastError' = "spawnErr"
            /\ child' = "none"
            /\ flags' = flags \cup {"spawnFailed"}
            /\ Goto("failed")
            /\ UNCHANGED <<result, spawnCount>>
  /\ UNCHANGED <<config, timeouts, StartAttempt, RestartCount, State,
                 parentDone, ctxDone, res, got, sigLog, lastExit, branch,
                 stopCalls, cancelSrc>>

\* startingSelect with the start timeout taken for a failed start
startingSelectTimeoutBacksOff ==
  /\ At("starting", "select")
  /\ \/ /\ ctxDone
        /\ branch' = "cancel"
        /\ Goto("stopping")
        /\ UNCHANGED <<LastError, StartAttempt, result, flags>>
     \/ /\ CanRecv(result)
        /\ branch' = "exit"
        /\ LastError' = RecvVal(result)
        /\ result' = AfterRecv(result)
        /\ flags' = flags \cup {"earlyExit"}
                          \cup (IF RecvVal(result) # "nil" THEN {"errExit"} ELSE {})
        /\ Goto(IF PolicyRestarts(RecvVal(result)) THEN "backoff" ELSE "stopped")
        /\ UNCHANGED StartAttempt
     \/ /\ branch' = "timeout"
        /\ LastError' = "nil"
        /\ StartAttempt' = 0
        /\ flags' = flags \cup {"survived"}
        /\ Goto("backoff")
        /\ UNCHANGED result
  /\ UNCHANGED <<config, timeouts, RestartCount, State, child, parentDone,
                 ctxDone, res, got, spawnCount, sigLog, lastExit, stopCalls,
                 cancelSrc>>

\* the select of starting
startingSelect ==
  /\ At("starting", "select")
  /\ \/ /\ ctxDone
        /\ branch' = "cancel"
        /\ Goto("stopping")
        /\ UNCHANGED <<LastError, StartAttempt, result, flags>>
     \/ /\ CanRecv(result)
        /\ branch' = "exit"
        /\ LastError' = RecvVal(result)
        /\ result' = AfterRecv(result)
        /\ flags' = flags \cup {"earlyExit"}
                          \cup (IF RecvVal(result) # "nil" THEN {"errExit"} ELSE {})
        /\ Goto(IF PolicyRestarts(RecvVal(result)) THEN "backoff" ELSE "stopped")
        /\ UNCHANGED StartAttempt
     \/ /\ branch' = "timeout"
        /\ LastError' = "nil"
        /\ StartAttempt' = 0
        /\ flags' = flags \cup {"survived"}
        /\ Goto("running")
        /\ UNCHANGED result
  /\ UNCHANGED <<config, timeouts, RestartCount, State, child, parentDone,
                 ctxDone, res, got, spawnCount, sigLog, lastExit, stopCalls,
                 cancelSrc>>

\* p.cmd.Process.Signal: fails once Wait has returned; may fail otherwise.
SignalResults == IF child = "alive" THEN BOOLEAN ELSE {FALSE}

\* the supervisor has already received the current child's exit from p.result
ExitObserved == child = "exited" /\ Len(result.buf) = 0

SendSignal(sig, ok) ==
  sigLog' = Append(sigLog, [sig |-> sig, target |-> child,
                            observed |-> ExitObserved, ok |-> ok])

\* stopping with a failed interrupt escalating to the kill
stoppingEscalatesOnSendError ==
  /\ At("stopping", "call")
  /\ \E ok \in SignalResults :
       /\ SendSignal("interrupt", ok)
       /\ IF ok
          THEN /\ LastError' = "nil"
               /\ pc' = "select"
               /\ UNCHANGED cur
          ELSE /\ LastError' = "sendErr"
               /\ Goto("killing")
  /\ UNCHANGED <<config, timeouts, StartAttempt, RestartCount, State, result,
                 child, parentDone, ctxDone, res, got, spawnCount, lastExit,
                 flags, branch, stopCalls, cancelSrc>>

stopping ==
  /\ At("stopping", "call")
  /\ \E ok \in SignalResults :
       /\ SendSignal("interrupt", ok)
       /\ IF ok
          THEN /\ LastError' = "nil"
               /\ pc' = "select"
               /\ UNCHANGED cur
          ELSE /\ LastError' = "sendErr"
               /\ Goto("failed")
  /\ UNCHANGED <<config, timeouts, StartAttempt, RestartCount, State, result,
                 child, parentDone, ctxDone, res, got, spawnCount, lastExit,
                 flags, branch, stopCalls, cancelSrc>>

\* stoppingSelect with the restart policy applied to the exit it receives
stoppingSelectRestarts ==
  /\ At("stopping", "select")
  /\ \/ /\ CanRecv(result)
        /\ branch' = "exit"
        /\ LastError' = RecvVal(result)
        /\ result' = AfterRecv(result)
        /\ Goto(IF PolicyRestarts(RecvVal(result))
                THEN "restarting" ELSE "stopped")
     \/ /\ branch' = "timeout"
        /\ Goto("killing")
        /\ UNCHANGED <<LastError, result>>
  /\ UNCHANGED <<config, timeouts, StartAttempt, RestartCount, State, child,
                 parentDone, ctxDone, res, got, spawnCount, sigLog, lastExit,
                 flags, stopCalls, cancelSrc>>

\* stoppingSelect with the received exit outcome dropped
stoppingSelectDropsExit ==
  /\ At("stopping", "select")
  /\ \/ /\ CanRecv(result)
        /\ branch' = "exit"
        /\ result' = AfterRecv(result)
        /\ Goto("stopped")
        /\ UNCHANGED LastError
     \/ /\ branch' = "timeout"
        /\ Goto("killing")
        /\ UNCHANGED <<LastError, result>>
  /\ UNCHANGED <<config, timeouts, StartAttempt, RestartCount, State, child,
                 parentDone, ctxDone, res, got, spawnCount, sigLog, lastExit,
                 flags, stopCalls, cancelSrc>>

stoppingSelect ==
  /\ At("stopping", "select")
  /\ \/ /\ CanRecv(result)
        /\ branch' = "exit"
        /\ LastError' = RecvVal(result)
        /\ result' = AfterRecv(result)
        /\ Goto("stopped")
     \/ /\ branch' = "timeout"
        /\ Goto("killing")
        /\ UNCHANGED <<LastError, result>>
  /\ UNCHANGED <<config, timeouts, StartAttempt, RestartCount, State, child,
                 parentDone, ctxDone, res, got, spawnCount, sigLog, lastExit,
                 flags, stopCalls, cancelSrc>>

killing ==
  /\ At("killing", "call")
  /\ \E ok \in SignalResults :
       /\ SendSignal("kill", ok)
       /\ IF ok
          THEN /\ LastError' = "nil"
               /\ pc' = "select"
               /\ UNCHANGED cur
          ELSE /\ LastError' = "sendErr"
               /\ Goto("failed")
  /\ UNCHANGED <<config, timeouts, StartAttempt, RestartCount, State, result,
                 child, parentDone, ctxDone, res, got, spawnCount, lastExit,
                 flags, branch, stopCalls, cancelSrc>>

\* killingSelect with the kill timeout falling through to stopped
killingSelectTimeoutStops ==
  /\ At("killing", "select")
  /\ \/ /\ CanRecv(result)
        /\ branch' = "exit"
        /\ LastError' = RecvVal(result)
        /\ result' = AfterRecv(result)
        /\ Goto("stopped")
        /\ UNCHANGED flags
     \/ /\ branch' = "timeout"
        /\ LastError' = "killTimeoutErr"
        /\ flags' = flags \cup {"killTimeout"}
        /\ Goto("stopped")
        /\ UNCHANGED result
  /\ UNCHANGED <<config, timeouts, StartAttempt, RestartCount, State, child,
                 parentDone, ctxDone, res, got, spawnCount, sigLog, lastExit,
                 stopCalls, cancelSrc>>

\* killingSelect that waits for the child's exit only
killingSelectNoTimeout ==
  /\ At("killing", "select")
  /\ CanRecv(result)
  /\ branch' = "exit"
  /\ LastError' = RecvVal(result)
  /\ result' = AfterRecv(result)
  /\ Goto("stopped")
  /\ UNCHANGED <<config, timeouts, StartAttempt, RestartCount, State, child,
                 parentDone, ctxDone, res, got, spawnCount, sigLog, lastExit,
                 flags, stopCalls, cancelSrc>>

killingSelect ==
  /\ At("killing", "select")
  /\ \/ /\ CanRecv(result)
        /\ branch' = "exit"
        /\ LastError' = RecvVal(result)
        /\ result' = AfterRecv(result)
        /\ Goto("stopped")
        /\ UNCHANGED flags
     \/ /\ branch' = "timeout"
        /\ LastError' = "killTimeoutErr"
        /\ flags' = flags \cup {"killTimeout"}
        /\ Goto("failed")
        /\ UNCHANGED result
  /\ UNCHANGED <<config, timeouts, StartAttempt, RestartCount, State, child,
                 parentDone, ctxDone, res, got, spawnCount, sigLog, lastExit,
                 stopCalls, cancelSrc>>

\* backoff with the budget tested before StartAttempt is incremented
backoffTestsBeforeIncrement ==
  /\ At("backoff", "call")
  /\ StartAttempt' = StartAttempt + 1
  /\ IF MaxStartAttempts # 0 /\ StartAttempt >= MaxStartAttempts
     THEN /\ LastError' = Wrap(LastError)
          /\ Goto("failed")
     ELSE /\ pc' = "select"
          /\ UNCHANGED <<cur, LastError>>
  /\ UNCHANGED <<config, timeouts, RestartCount, State, result, child,
                 parentDone, ctxDone, res, got, history>>

\* backoff with the budget test > instead of >=
backoffOffByOne ==
  /\ At("backoff", "call")
  /\ StartAttempt' = StartAttempt + 1
  /\ IF MaxStartAttempts # 0 /\ StartAttempt' > MaxStartAttempts
     THEN /\ LastError' = Wrap(LastError)
          /\ Goto("failed")
     ELSE /\ pc' = "select"
          /\ UNCHANGED <<cur, LastError>>
  /\ UNCHANGED <<config, timeouts, RestartCount, State, result, child,
                 parentDone, ctxDone, res, got, history>>

backoff ==
  /\ At("backoff", "call")
  /\ StartAttempt' = StartAttempt + 1
  /\ IF MaxStartAttempts # 0 /\ StartAttempt' >= MaxStartAttempts
     THEN /\ LastError' = Wrap(LastError)
          /\ Goto("failed")
     ELSE /\ pc' = "select"
          /\ UNCHANGED <<cur, LastError>>
  /\ UNCHANGED <<config, timeouts, RestartCount, State, result, child,
                 parentDone, ctxDone, res, got, history>>

\* backoffSelect with StartAttempt reset when the delay has elapsed
backoffSelectResets ==
  /\ At("backoff", "select")
  /\ \/ /\ ctxDone
        /\ branch' = "cancel"
        /\ Goto("stopping")
        /\ UNCHANGED <<LastError, StartAttempt>>
     \/ /\ branch' = "timeout"
        /\ LastError' = "nil"
        /\ StartAttempt' = 0
        /\ Goto("starting")
  /\ UNCHANGED <<config, timeouts, RestartCount, State, result,
                 child, parentDone, ctxDone, res, got, spawnCount, sigLog,
                 lastExit, flags, stopCalls, cancelSrc>>

\* backoffSelect with a cancellation ending the run, as no child is alive
backoffSelectCancelStops ==
  /\ At("backoff", "select")
  /\ \/ /\ ctxDone
        /\ branch' = "cancel"
        /\ Goto("stopped")
        /\ UNCHANGED LastError
     \/ /\ branch' = "timeout"
        /\ LastError' = "nil"
        /\ Goto("starting")
  /\ UNCHANGED <<config, timeouts, StartAttempt, RestartCount, State, result,
                 child, parentDone, ctxDone, res, got, spawnCount, sigLog,
                 lastExit, flags, stopCalls, cancelSrc>>

backoffSelect ==
  /\ At("backoff", "select")
  /\ \/ /\ ctxDone
        /\ branch' = "cancel"
        /\ Goto("stopping")
        /\ UNCHANGED LastError
     \/ /\ branch' = "timeout"
        /\ LastError' = "nil"
        /\ Goto("starting")
  /\ UNCHANGED <<config, timeouts, StartAttempt, RestartCount, State, result,
                 child, parentDone, ctxDone, res, got, spawnCount, sigLog,
                 lastExit, flags, stopCalls, cancelSrc>>

failed ==
  /\ At("failed", "call")
  /\ Halt
  /\ UNCHANGED <<config, timeouts, runtime, result, child, parentDone,
                 ctxDone, res, got, history>>

\* restarting with an exhausted budget always leading to stopped
restartingAlwaysStops ==
  /\ At("restarting", "call")
  /\ RestartCount' = RestartCount + 1
  /\ IF MaxRestarts # 0 /\ RestartCount' >= MaxRestarts
     THEN Goto("stopped")
     ELSE /\ pc' = "select"
          /\ UNCHANGED cur
  /\ UNCHANGED <<config, timeouts, StartAttempt, State, LastError, result,
                 child, parentDone, ctxDone, res, got, history>>

\* restarting with an exhausted budget always leading to failed
restartingAlwaysFails ==
  /\ At("restarting", "call")
  /\ RestartCount' = RestartCount + 1
  /\ IF MaxRestarts # 0 /\ RestartCount' >= MaxRestarts
     THEN Goto("failed")
     ELSE /\ pc' = "select"
          /\ UNCHANGED cur
  /\ UNCHANGED <<config, timeouts, StartAttempt, State, LastError, result,
                 child, parentDone, ctxDone, res, got, history>>

\* restarting with the budget test > instead of >=
restartingOffByOne ==
  /\ At("restarting", "call")
  /\ RestartCount' = RestartCount + 1
  /\ IF MaxRestarts # 0 /\ RestartCount' > MaxRestarts
     THEN Goto(IF LastError # "nil" THEN "failed" ELSE "stopped")
     ELSE /\ pc' = "select"
          /\ UNCHANGED cur
  /\ UNCHANGED <<config, timeouts, StartAttempt, State, LastError, result,
                 child, parentDone, ctxDone, res, got, history>>

restarting ==
  /\ At("restarting", "call")
  /\ RestartCount' = RestartCount + 1
  /\ IF MaxRestarts # 0 /\ RestartCount' >= MaxRestarts
     THEN Goto(IF LastError # "nil" THEN "failed" ELSE "stopped")
     ELSE /\ pc' = "select"
          /\ UNCHANGED cur
  /\ UNCHANGED <<config, timeouts, StartAttempt, State, LastError, result,
                 child, parentDone, ctxDone, res, got, history>>

\* restartingSelect with LastError kept when the delay has elapsed
restartingSelectKeepsError ==
  /\ At("restarting", "select")
  /\ \/ /\ ctxDone
        /\ branch' = "cancel"
        /\ Goto("stopping")
     \/ /\ branch' = "timeout"
        /\ Goto("starting")
  /\ UNCHANGED <<config, timeouts, StartAttempt, RestartCount, State,
                 LastError, result, child, parentDone, ctxDone, res, got,
                 spawnCount, sigLog, lastExit, flags, stopCalls, cancelSrc>>

restartingSelect ==
  /\ At("restarting", "select")
  /\ \/ /\ ctxDone
        /\ branch' = "cancel"
        /\ Goto("stopping")
        /\ UNCHANGED LastError
     \/ /\ branch' = "timeout"
        /\ LastError' = "nil"
        /\ Goto("starting")
  /\ UNCHANGED <<config, timeouts, StartAttempt, RestartCount, State, result,
                 child, parentDone, ctxDone, res, got, spawnCount, sigLog,
                 lastExit, flags, stopCalls, cancelSrc>>

\* running with "on-failure" restarting after a clean exit too
runningOnFailureRestartsAlways ==
  /\ At("running", "call")
  /\ \/ /\ ctxDone
        /\ branch' = "cancel"
        /\ Goto("stopping")
        /\ UNCHANGED <<LastError, result, flags>>
     \/ /\ CanRecv(result)
        /\ branch' = "exit"
        /\ LastError' = RecvVal(result)
        /\ result' = AfterRecv(result)
        /\ flags' = flags \cup {"lateExit"}
                          \cup (IF RecvVal(result) # "nil" THEN {"errExit"} ELSE {})
        /\ Goto(IF RestartPolicy \in {"always", "on-failure"}
                THEN "restarting" ELSE "stopped")
  /\ UNCHANGED <<config, timeouts, StartAttempt, RestartCount, State, child,
                 parentDone, ctxDone, res, got, spawnCount, sigLog, lastExit,
                 stopCalls, cancelSrc>>

running ==
  /\ At("running", "call")
  /\ \/ /\ ctxDone
        /\ branch' = "cancel"
        /\ Goto("stopping")
        /\ UNCHANGED <<LastError, result, flags>>
     \/ /\ CanRecv(result)
        /\ branch' = "exit"
        /\ LastError' = RecvVal(result)
        /\ result' = AfterRecv(result)
        /\ flags' = flags \cup {"lateExit"}
                          \cup (IF RecvVal(result) # "nil" THEN {"errExit"} ELSE {})
        /\ Goto(IF PolicyRestarts(RecvVal(result)) THEN "restarting" ELSE "stopped")
  /\ UNCHANGED <<config, timeouts, StartAttempt, RestartCount, State, child,
                 parentDone, ctxDone, res, got, spawnCount, sigLog, lastExit,
                 stopCalls, cancelSrc>>

stopped ==
  /\ At("stopped", "call")
  /\ Halt
  /\ UNCHANGED <<config, timeouts, runtime, result, child, parentDone,
                 ctxDone, res, got, history>>

\* ------------------------------------------------------------------ Next
Next ==
  \/ Run
  \/ Observe
  \/ starting
  \/ startingSelect
  \/ running
  \/ stopping
  \/ stoppingSelect
  \/ killing
  \/ killingSelect
  \/ backoff
  \/ backoffSelect
  \/ restarting
  \/ restartingSelect
  \/ failed
  \/ stopped
  \/ RunDeliver
  \/ RunClose
  \/ CallerReceive
  \/ CallerCancel
  \/ Stop
  \/ ChildExit

Spec == Init /\ [][Next]_vars

\* A run nobody cancels: the caller never cancels its context and never
\* invokes Stop, so stopping and killing are never entered.
NoCancelNext ==
  \/ Run
  \/ Observe
  \/ starting
  \/ startingSelect
  \/ running
  \/ backoff
  \/ backoffSelect
  \/ restarting
  \/ restartingSelect
  \/ failed
  \/ stopped
  \/ RunDeliver
  \/ RunClose
  \/ CallerReceive
  \/ ChildExit

\* Go schedules a runnable goroutine and fires a started timer, so the
\* goroutine of Run takes its next step whenever it has one; and the child
\* is one that exits.
NoCancelSpec ==
  /\ Init
  /\ [][NoCancelNext]_vars
  /\ WF_vars(NoCancelNext)

\* A run the caller cancels through its context and whose result channel
\* is not read yet.
CancelNext ==
  \/ Run
  \/ Observe
  \/ starting
  \/ startingSelect
  \/ running
  \/ stopping
  \/ stoppingSelect
  \/ killing
  \/ killingSelect
  \/ backoff
  \/ backoffSelect
  \/ restarting
  \/ restartingSelect
  \/ failed
  \/ stopped
  \/ RunDeliver
  \/ RunClose
  \/ CallerCancel
  \/ ChildExit

\* the steps of the goroutine Run starts
RunStep ==
  \/ Observe
  \/ starting
  \/ startingSelect
  \/ running
  \/ stopping
  \/ stoppingSelect
  \/ killing
  \/ killingSelect
  \/ backoff
  \/ backoffSelect
  \/ restarting
  \/ restartingSelect
  \/ failed
  \/ stopped
  \/ RunDeliver
  \/ RunClose

\* the `case <-c.Done()` branch of a select
CancelBranch ==
  /\ \/ startingSelect
     \/ running
     \/ backoffSelect
     \/ restartingSelect
  /\ branch' = "cancel"

\* Go schedules a runnable goroutine and fires a started timer, so the
\* goroutine of Run takes its next step whenever it has one; a select whose
\* cancellation branch is ready again and again eventually takes it.  The
\* child is under no obligation to exit.
CancelSpec ==
  /\ Init
  /\ [][CancelNext]_vars
  /\ WF_vars(RunStep)
  /\ SF_vars(CancelBranch)

TypeOK ==
  /\ RestartPolicy \in Policies
  /\ StartAttempt \in Nat
  /\ RestartCount \in Nat
  /\ State \in StateNames \cup {""}
  /\ LastError \in Errors
  /\ flags \subseteq {"spawnFailed", "earlyExit", "lateExit", "errExit",
                      "survived", "killTimeout", "orphan", "preCancelled"}
  /\ child \in {"none", "alive", "exited"}
  /\ pc \in {"new", "observe", "call", "select", "deliver", "close", "done"}
  /\ cur \in StateNames
  /\ Len(result.buf) <= 1
  /\ Len(res.buf) <= 1

\* ------------------------------------------------------------ properties
Terminal == pc \in {"deliver", "close", "done"}
Delivered == pc \in {"close", "done"}
NoCancel == ~ctxDone
Interrupts == {i \in 1..Len(sigLog) : sigLog[i].sig = "interrupt"}
Kills == {i \in 1..Len(sigLog) : sigLog[i].sig = "kill"}
OpenReads == {i \in 1..Len(got) : got[i].open}

\* values sent so far on the channel Run returned
Sent == Len(res.buf) + Cardinality(OpenReads)

C1Inv ==
  /\ Sent = (IF Delivered THEN 1 ELSE 0)
  /\ res.closed <=> pc = "done"
  /\ \A i \in 1..Len(res.buf) : res.buf[i] = "nil"
  /\ \A i \in 1..Len(got) : got[i].val = "nil"
  /\ Sent > 0 => State \in {"stopped", "failed"} /\ cur = State

\* C1: the channel Run returns receives exactly one value, nil, and is then
\* closed; the value is sent only once the state machine is in a terminal
\* state (State is "stopped" or "failed"), and from then on no state function
\* runs: the run-time fields, the signals sent and the spawns stay as they are.
C1_ResultDelivery ==
  /\ []C1Inv
  /\ [][Terminal =>
          /\ Terminal'
          /\ UNCHANGED <<runtime, cur, sigLog, spawnCount, flags>>]_vars

C1_Witness ==
  /\ pc = "done"
  /\ Len(got) = 2
  /\ got[1] = [val |-> "nil", open |-> TRUE]
  /\ ~got[2].open
  /\ State = "failed"

C2Pre ==
  /\ RestartPolicy \notin {"always", "on-failure"}
  /\ NoCancel
  /\ spawnCount >= 1

\* C2: with a policy other than "always" and "on-failure", no cancellation
\* and a successful spawn, the child is spawned once, and its exit (before or
\* after the start timeout) ends the run in stopped with LastError the exit's
\* outcome, StartAttempt = 0 and RestartCount = 0.
C2_NoRestartPolicy ==
  C2Pre =>
    /\ spawnCount = 1
    /\ StartAttempt = 0
    /\ RestartCount = 0
    /\ cur \in {"starting", "running", "stopped"}
    /\ flags \cap {"earlyExit", "lateExit"} # {} =>
         cur = "stopped" /\ LastError = lastExit
    /\ Terminal => State = "stopped" /\ LastError = lastExit

C2_Witness ==
  /\ C2Pre
  /\ RestartPolicy = "never"
  /\ pc = "done"
  /\ "lateExit" \in flags
  /\ State = "stopped"
  /\ LastError = "exitErr"

C3Inv ==
  (cur = "stopped" /\ Len(sigLog) = 1) =>
    /\ sigLog[1] = [sig |-> "interrupt", target |-> "alive",
                    observed |-> FALSE, ok |-> TRUE]
    /\ LastError = lastExit
    /\ LastError \in {"nil"} \cup ExitErrors

\* C3: when cancellation is observed in starting or running and the child
\* exits after the interrupt was sent and before the stop timeout fires, the
\* run goes from stopping to stopped, no kill is sent, and LastError is that
\* child's exit outcome (the signal-termination error when the interrupt
\* ended it), not a synthesized error.
C3_GracefulStop ==
  /\ []C3Inv
  /\ [][(At("stopping", "select") /\ cur' # cur /\ branch' = "exit") =>
          /\ cur' = "stopped"
          /\ Kills = {} /\ sigLog' = sigLog
          /\ LastError' = lastExit
          /\ LastError' \in {"nil"} \cup ExitErrors]_vars

C3_Witness ==
  /\ pc = "done"
  /\ State = "stopped"
  /\ cancelSrc = "stop"
  /\ "survived" \in flags
  /\ Len(sigLog) = 1
  /\ LastError = "signalErr"
  /\ lastExit = "signalErr"

C4Pre ==
  /\ RestartPolicy = "always"
  /\ MaxRestarts > 0
  /\ NoCancel
  /\ flags \cap {"spawnFailed", "earlyExit", "errExit"} = {}

C4Inv ==
  /\ MaxRestarts > 0 => RestartCount <= MaxRestarts
  /\ C4Pre =>
       /\ spawnCount <= MaxRestarts
       /\ Terminal =>
            /\ spawnCount = MaxRestarts
            /\ RestartCount = MaxRestarts
            /\ LastError = "nil"
            /\ cur = "stopped"
            /\ State = "stopped"

\* C4: with policy "always", MaxRestarts = N > 0, no cancellation and a child
\* that each time survives the start timeout and exits cleanly, the run
\* terminates, having spawned the child N times, with RestartCount = N,
\* LastError nil and State "stopped"; RestartCount never exceeds N.
C4_RestartBudget ==
  /\ []C4Inv
  /\ (pc # "new" /\ C4Pre) ~> (pc = "done" \/ ~C4Pre)

C4_Witness ==
  /\ C4Pre
  /\ MaxRestarts = 2
  /\ pc = "done"
  /\ spawnCount = 2
  /\ RestartCount = 2
  /\ State = "stopped"

\* the child was spawned and so far has exited before every start timeout
EarlyExitsOnly ==
  /\ RestartPolicy = "always"
  /\ NoCancel
  /\ flags \cap {"spawnFailed", "survived"} = {}

\* C5 as stated: with policy "always", MaxRestarts = N > 0, any
\* MaxStartAttempts and no cancellation, a child that keeps exiting before the
\* start timeout is restarted only until RestartCount or StartAttempt reaches
\* N, and the run then ends in failed.
C5_Original ==
  (EarlyExitsOnly /\ MaxRestarts > 0) =>
    /\ StartAttempt <= MaxRestarts
    /\ RestartCount <= MaxRestarts
    /\ (StartAttempt >= MaxRestarts \/ RestartCount >= MaxRestarts) <=>
         cur = "failed"

\* C5, amended: with policy "always", MaxStartAttempts = N > 0, any
\* MaxRestarts and no cancellation, a child that keeps exiting before the
\* start timeout is restarted only until StartAttempt reaches N (N spawns),
\* and the run then ends in failed; RestartCount stays 0.  With
\* MaxStartAttempts = 0 the run never ends, whatever MaxRestarts is.
C5_StartAttemptBudget ==
  EarlyExitsOnly =>
    /\ RestartCount = 0
    /\ cur \in {"starting", "backoff", "failed"}
    /\ MaxStartAttempts > 0 =>
         /\ StartAttempt <= MaxStartAttempts
         /\ spawnCount <= MaxStartAttempts
         /\ StartAttempt >= MaxStartAttempts <=> cur = "failed"
         /\ cur = "failed" =>
              LastError \in MaxStartErrors /\ spawnCount = MaxStartAttempts
         /\ Terminal => State = "failed"
    /\ MaxStartAttempts = 0 => cur # "failed" /\ ~Terminal

C5_Witness ==
  /\ EarlyExitsOnly
  /\ MaxStartAttempts = 2
  /\ MaxRestarts = 1
  /\ pc = "done"
  /\ State = "failed"
  /\ StartAttempt = 2
  /\ spawnCount = 2

\* C6: when the kill timeout fires in killing (the kill was sent and the
\* child's exit was not received), the run ends in failed with LastError the
\* "failed to kill process" error, never in stopped.
C6_KillTimeoutFails ==
  "killTimeout" \in flags =>
    /\ cur = "failed"
    /\ LastError = "killTimeoutErr"
    /\ State \in {"killing", "failed"}
    /\ Terminal => State = "failed"

C6_Witness ==
  /\ "killTimeout" \in flags
  /\ pc = "done"
  /\ State = "failed"
  /\ Len(sigLog) = 2
  /\ sigLog[2].sig = "kill" /\ sigLog[2].ok
  /\ child = "alive"

\* C7: whenever State is "failed", LastError is not nil, whichever way failed
\* was entered.
C7_FailedHasError ==
  (State = "failed" \/ cur = "failed") => LastError # "nil"

C7_Witness ==
  /\ State = "failed"
  /\ LastError = "exitErr"
  /\ MaxRestarts = 2
  /\ RestartCount = 2

program ==
  <<config, timeouts, runtime, result, child, res, got, pc, cur>>

\* C8: when starting, running, backoff or restarting is left because the
\* cancellation was observed, the next state is stopping; the Stop handle and
\* the caller's context are the same cancellation to the supervisor: each
\* only marks the derived context done, which is all the selects look at.
C8_CancelRoutesToStopping ==
  [][/\ (/\ cur \in {"starting", "running", "backoff", "restarting"}
         /\ cur' # cur
         /\ branch' = "cancel") => (ctxDone /\ cur' = "stopping")
     /\ (\/ stopCalls' # stopCalls
         \/ parentDone' # parentDone /\ pc # "new") =>
          (ctxDone' /\ UNCHANGED program)
     /\ (pc = "new" /\ pc' # "new") => ctxDone' = parentDone]_vars

C8_Witness ==
  /\ cancelSrc = "ctx"
  /\ stopCalls = 0
  /\ branch = "cancel"
  /\ State = "backoff"
  /\ cur = "stopping"

\* C9: an invocation of Stop after the derived context is already cancelled
\* changes nothing the supervisor or the caller can see, so the run continues
\* exactly as after the first invocation; however often Stop is invoked, at
\* most one interrupt and one kill are sent in a run.
C9_StopIdempotent ==
  /\ [](/\ Cardinality(Interrupts) <= 1
        /\ Cardinality(Kills) <= 1
        /\ stopCalls > 0 => ctxDone)
  /\ [][(stopCalls' # stopCalls /\ ctxDone) =>
          UNCHANGED <<program, parentDone, ctxDone, spawnCount, sigLog,
                      lastExit, flags, branch, cancelSrc>>]_vars

C9_Witness ==
  /\ stopCalls = 2
  /\ cancelSrc = "stop"
  /\ pc = "done"
  /\ State = "stopped"
  /\ Cardinality(Interrupts) = 1

\* C10: the supervisor never sends an interrupt or a kill to a child whose
\* exit it has already received from p.result.
C10_NoSignalToGoneChild ==
  \A i \in 1..Len(sigLog) : ~sigLog[i].observed

\* backoff finds the start-attempt budget exhausted in this step
StartBudgetExhausted ==
  /\ At("backoff", "call")
  /\ MaxStartAttempts > 0
  /\ StartAttempt' >= MaxStartAttempts
  /\ pc' # pc

\* restarting finds the restart budget exhausted in this step
RestartBudgetExhausted ==
  /\ At("restarting", "call")
  /\ MaxRestarts > 0
  /\ RestartCount' >= MaxRestarts
  /\ pc' # pc

\* C11 as stated: whenever backoff finds StartAttempt has reached a positive
\* MaxStartAttempts, or restarting finds RestartCount has reached a positive
\* MaxRestarts, the next state is failed and LastError is not nil.
C11_Original ==
  [][(StartBudgetExhausted \/ RestartBudgetExhausted) =>
       (cur' = "failed" /\ LastError' # "nil")]_vars

\* C11, amended: an exhausted start-attempt budget ends the run in failed
\* with a non-nil LastError; an exhausted restart budget ends the run in
\* failed when LastError (the last exit's outcome) is not nil, and in stopped,
\* LastError still nil, when the last exit was clean.  failed and stopped are
\* final.
C11_BudgetExhaustion ==
  [][/\ StartBudgetExhausted =>
          (cur' = "failed" /\ LastError' \in MaxStartErrors)
     /\ RestartBudgetExhausted =>
          /\ LastError' = LastError
          /\ LastError # "nil" => cur' = "failed"
          /\ LastError = "nil" => cur' = "stopped"
     /\ cur \in {"failed", "stopped"} => cur' = cur]_vars

C11_Witness ==
  /\ MaxRestarts = 2
  /\ RestartCount = 2
  /\ State = "stopped"
  /\ LastError = "nil"
  /\ RestartPolicy = "always"
  /\ pc = "done"

\* C12: at most one child is live at any time: starting spawns only when no
\* child it spawned before is still alive, and every spawn after the first
\* follows the receipt of the previous child's exit from p.result.
C12_OneLiveChild ==
  /\ []("orphan" \notin flags)
  /\ [][spawnCount' # spawnCount =>
          /\ child # "alive"
          /\ spawnCount > 0 => ExitObserved]_vars

C12_Witness ==
  /\ spawnCount = 2
  /\ child = "alive"
  /\ lastExit # "none"
  /\ "orphan" \notin flags
  /\ At("starting", "select")

\* C13 as stated: across every transition StartAttempt and RestartCount are
\* each at least what they were before it.
C13_Original ==
  [][StartAttempt' >= StartAttempt /\ RestartCount' >= RestartCount]_vars

\* C13, amended: RestartCount never decreases, and grows only by one, in
\* restarting; StartAttempt grows only by one, in backoff, and decreases only
\* where starting resets it to 0 because the child survived the start
\* timeout.
C13_Counters ==
  [][/\ RestartCount' >= RestartCount
     /\ RestartCount' > RestartCount =>
          (At("restarting", "call") /\ RestartCount' = RestartCount + 1)
     /\ StartAttempt' > StartAttempt =>
          (At("backoff", "call") /\ StartAttempt' = StartAttempt + 1)
     /\ StartAttempt' < StartAttempt =>
          /\ At("starting", "select")
          /\ branch' = "timeout"
          /\ cur' = "running"
          /\ StartAttempt' = 0]_vars

C13_Witness ==
  /\ cur = "running"
  /\ StartAttempt = 0
  /\ RestartCount = 0
  /\ "earlyExit" \in flags
  /\ "survived" \in flags
  /\ spawnCount = 2

\* the select of state function `from` receives the child's exit in this step
ExitStep(from) ==
  /\ cur = from
  /\ cur' # cur
  /\ branch' = "exit"

\* where the restart policy leads after the exit outcome err
PolicyTarget(restartState, err) ==
  CASE RestartPolicy = "always" -> restartState
    [] RestartPolicy = "on-failure" ->
         IF err # "nil" THEN restartState ELSE "stopped"
    [] OTHER -> "stopped"

KeepsExitingEarly ==
  /\ RestartPolicy \in {"always", "on-failure"}
  /\ NoCancel
  /\ flags \cap {"spawnFailed", "survived"} = {}

C15Inv ==
  /\ MaxStartAttempts > 0 => StartAttempt <= MaxStartAttempts
  /\ (KeepsExitingEarly /\ cur = "failed") =>
       /\ MaxStartAttempts > 0
       /\ StartAttempt = MaxStartAttempts
       /\ spawnCount = MaxStartAttempts
       /\ LastError = Wrap(lastExit)

\* C15: backoff adds one to StartAttempt on each entry and goes to failed
\* exactly when MaxStartAttempts = N > 0 and the new value is >= N, LastError
\* then wrapping the last exit error; so StartAttempt never exceeds N, a
\* child that keeps exiting before the start timeout is spawned N times
\* before the run ends in failed, and with MaxStartAttempts = 0 backoff never
\* goes to failed.
C15_StartAttempts ==
  /\ []C15Inv
  /\ [][(At("backoff", "call") /\ pc' # pc) =>
          /\ StartAttempt' = StartAttempt + 1
          /\ cur' = "failed" <=>
               (MaxStartAttempts > 0 /\ StartAttempt' >= MaxStartAttempts)
          /\ cur' = "failed" => LastError' = Wrap(LastError)
          /\ cur' # "failed" => (cur' = "backoff" /\ LastError' = LastError)]_vars

C15_Witness ==
  /\ KeepsExitingEarly
  /\ RestartPolicy = "on-failure"
  /\ MaxStartAttempts = 2
  /\ pc = "done"
  /\ State = "failed"
  /\ spawnCount = 2
  /\ LastError = "maxStartErr(exitErr)"

\* cmd.Start fails in this step
SpawnFails ==
  /\ At("starting", "call")
  /\ "spawnFailed" \in flags'
  /\ pc' # pc

\* Process.Signal fails in this step
SendFails ==
  /\ Len(sigLog') = Len(sigLog) + 1
  /\ ~sigLog'[Len(sigLog')].ok

\* C16: a failed spawn in starting, a failed interrupt in stopping and a
\* failed kill in killing each lead to failed with LastError that failure,
\* whatever the policy and the budgets; from then on nothing is spawned, no
\* signal is sent, no counter changes and no select is entered.
C16_HandleFailureIsTerminal ==
  [][/\ SpawnFails =>
          /\ cur' = "failed"
          /\ LastError' = "spawnErr"
          /\ UNCHANGED <<StartAttempt, RestartCount, spawnCount, sigLog>>
     /\ SendFails =>
          /\ cur \in {"stopping", "killing"}
          /\ cur' = "failed"
          /\ LastError' = "sendErr"
          /\ pc' = "observe"
          /\ UNCHANGED <<StartAttempt, RestartCount, spawnCount>>
     /\ cur = "failed" =>
          /\ cur' = "failed"
          /\ pc' # "select"
          /\ UNCHANGED <<LastError, StartAttempt, RestartCount, spawnCount,
                         sigLog>>]_vars

C16_Witness ==
  /\ RestartPolicy = "always"
  /\ MaxRestarts = 0
  /\ pc = "done"
  /\ State = "failed"
  /\ LastError = "sendErr"
  /\ Len(sigLog) = 2
  /\ sigLog[2].sig = "kill"
  /\ child = "alive"

ShutdownStates == {"stopping", "killing", "stopped", "failed"}

C17Inv ==
  /\ Cardinality(Interrupts) <= 1
  /\ Cardinality(Kills) <= 1
  /\ cur \in {"stopping", "killing"} => ctxDone
  /\ Kills # {} =>
       /\ Len(sigLog) = 2
       /\ sigLog[1].sig = "interrupt" /\ sigLog[1].ok
       /\ sigLog[2].sig = "kill" /\ ~sigLog[2].observed

\* C17: once stopping is entered the run stays in stopping, killing, stopped
\* and failed; a kill is sent only after the interrupt was sent successfully
\* to the same child and the stop timeout fired with the exit not received;
\* at most one interrupt and one kill are sent in a run; and a cancellation
\* during stopping or killing changes nothing.
C17_Escalation ==
  /\ []C17Inv
  /\ [][/\ cur \in ShutdownStates => cur' \in ShutdownStates
        /\ cur \in ShutdownStates => spawnCount' = spawnCount
        /\ (sigLog' # sigLog /\ cur = "killing") =>
             (State = "killing" /\ branch = "timeout" /\ ~ExitObserved)
        /\ cur' = "killing" =>
             (cur = "killing" \/ (At("stopping", "select") /\ branch' = "timeout"))
        /\ (/\ cur \in {"stopping", "killing"}
            /\ (stopCalls' # stopCalls \/ parentDone' # parentDone)) =>
             UNCHANGED <<program, ctxDone, spawnCount, sigLog, lastExit,
                         flags, branch>>]_vars

C17_Witness ==
  /\ pc = "done"
  /\ State = "stopped"
  /\ Len(sigLog) = 2
  /\ sigLog[2].ok
  /\ LastError = "signalErr"
  /\ stopCalls = 2
  /\ parentDone

C18Inv ==
  /\ cur = "running" => (LastError = "nil" /\ StartAttempt = 0)
  /\ (State = "running" /\ branch # "exit") =>
       (LastError = "nil" /\ StartAttempt = 0)
  /\ (cur = "starting" /\ pc \in {"observe", "call"}) => LastError = "nil"

\* C18: when running is entered LastError is nil and StartAttempt is 0, and
\* they stay so while State is "running" until the child's exit is received;
\* when starting is entered from backoff or restarting, which happens only
\* when the delay has elapsed, LastError is nil.
C18_ErrorCleared ==
  /\ []C18Inv
  /\ [][/\ (cur' = "running" /\ cur # "running") =>
             /\ At("starting", "select") /\ branch' = "timeout"
             /\ LastError' = "nil" /\ StartAttempt' = 0
        /\ (cur \in {"backoff", "restarting"} /\ cur' = "starting") =>
             (pc = "select" /\ branch' = "timeout" /\ LastError' = "nil")]_vars

C18_Witness ==
  /\ At("starting", "call")
  /\ State = "starting"
  /\ RestartCount = 1
  /\ "errExit" \in flags
  /\ lastExit = "exitErr"
  /\ LastError = "nil"

\* the spawn of starting was attempted in this step
SpawnAttempted ==
  \/ /\ spawnCount' = spawnCount + 1
     /\ child' = "alive"
     /\ At("starting", "select")'
  \/ /\ LastError' = "spawnErr"
     /\ At("failed", "observe")'

C20Inv ==
  /\ cur \in {"stopping", "killing"} => spawnCount >= 1
  /\ (At("starting", "call") /\ spawnCount < MaxSpawns) => ENABLED starting

\* C20: starting tests the cancellation only after the spawn: every step
\* that leaves the entry of starting attempts a spawn, also when the context
\* is already cancelled, so stopping is never entered before a child was
\* spawned, also in a Run that was given a cancelled context.
C20_SpawnBeforeCancel ==
  /\ []C20Inv
  /\ [][(At("starting", "call") /\ ~At("starting", "call")') =>
          SpawnAttempted]_vars

C20_Witness ==
  /\ "preCancelled" \in flags
  /\ At("stopping", "call")
  /\ State = "stopping"
  /\ branch = "cancel"
  /\ spawnCount = 1
  /\ child = "alive"

\* the model stops following the run at the entry of starting once MaxSpawns
\* children were spawned
SpawnCapReached == At("starting", "call") /\ spawnCount = MaxSpawns

C19Inv ==
  /\ Terminal => cur \in {"stopped", "failed"}
  /\ pc \in {"close", "done"} => State = cur
  /\ pc = "done" => (res.closed /\ Sent = 1)

\* C19: once the context is cancelled the run reaches one terminal state,
\* stopped or failed, delivers its result and closes the channel, whatever
\* state was active and whichever ready branch each select takes; a run that
\* is in stopping or killing always leaves it and terminates, also when the
\* child never exits and when the child's exit was received before stopping
\* was entered.
C19_CancelTerminates ==
  /\ []C19Inv
  /\ [][Terminal => (cur' = cur /\ State' = State /\ LastError' = LastError)]_vars
  /\ (ctxDone ~> (pc = "done" \/ SpawnCapReached))
  /\ (cur \in {"stopping", "killing"} ~> pc = "done")

C19_Witness ==
  /\ pc = "done"
  /\ ctxDone
  /\ cur = "failed"
  /\ LastError = "sendErr"
  /\ branch = "cancel"
  /\ child = "exited"
  /\ result.buf = <<>>
  /\ Kills = {}
====
